---- MODULE Spec2Model ----
(***************************************************************************)
(* nabarr: the run/test entry point (cmd/nabarr/main.go) and the peer      *)
(* network node (peernet/peernet.go).                                      *)
(*                                                                         *)
(* The model follows main() statement by statement: the pvr registry loop, *)
(* peernet.New, the two Subscribe calls, Bootstrap, the rss jobs, the wait *)
(* for the shutdown signal and the final Shutdown of the aggregate state.  *)
(* Every inbound peernet message runs pnHandler, which spawns one          *)
(* goroutine per message; these goroutines are the model's tasks.          *)
(***************************************************************************)
EXTENDS Integers, Sequences, FiniteSets, TLC

(***************************************************************************)
(* Bounds of the model.                                                    *)
(***************************************************************************)
\* longest cfg.Pvrs list explored
MaxPvrs == 2
\* inbound peernet messages per run
MaxMsgs == 2
\* longest cfg.Rss.Feeds list explored
MaxFeeds == 1
\* seconds the clock advances per Tick while Shutdown is waiting
TickSeconds == 60

(***************************************************************************)
(* Program constants.                                                      *)
(***************************************************************************)
\* peernet.go:41
DefaultPort == 9157
\* peernet.go:50
DHTProtocolID == 1337
\* main.go:314, seconds
ShutdownTimeout == 60

(***************************************************************************)
(* peernet.Config and peernet.New                                          *)
(***************************************************************************)
Hosts == {"", "example.org"}
NetworkKeys == {"", "psk"}
IdentityKeys == {"", "id"}
Ports == {0, 1, 8080, DefaultPort, 65535}
\* bootstrap_node values: none, one multiaddr.NewMultiaddr rejects, one it parses
BootstrapNodes == {"", "not-a-multiaddr", "/ip4/10.0.0.1/tcp/9157/p2p/QmPeer"}

PeernetConfigs ==
    [ExternalHost : Hosts, ExternalPort : Ports, IdentityKey : IdentityKeys,
     NetworkKey : NetworkKeys, BootstrapNode : BootstrapNodes]

\* "set config defaults" with the check of ExternalPort left out
WithDefaultsNoDefault(c) == c

\* peernet.go:39-42
WithDefaults(c) ==
    IF c.ExternalPort = 0 THEN [c EXCEPT !.ExternalPort = DefaultPort] ELSE c

\* the options handed to p2p.NewHost, peernet.go:45-57
HostOptions(c) ==
    [HostName |-> "0.0.0.0",
     Port |-> c.ExternalPort,
     ExternalHostName |-> c.ExternalHost,
     ExternalPort |-> c.ExternalPort,
     DHTProtocolID |-> DHTProtocolID,
     MasterKey |-> c.IdentityKey,
     PrivateNetworkPSK |-> c.NetworkKey,
     Gossip |-> TRUE,
     SecureIO |-> TRUE]

\* New without the two validations: the host is created from any config
NewUnvalidated(c, hostOk) ==
    LET d == WithDefaults(c)
    IN  IF hostOk
        THEN [err |-> "", node |-> <<[cfg |-> d, host |-> HostOptions(d)]>>,
              newHost |-> <<HostOptions(d)>>]
        ELSE [err |-> "new host", node |-> <<>>, newHost |-> <<HostOptions(d)>>]

\* peernet.New.  hostOk is the outcome of p2p.NewHost.  The result carries the
\* error ("" for nil), the node (<<>> for nil) and the p2p.NewHost calls made.
New(c, hostOk) ==
    IF c.ExternalHost = ""
    THEN [err |-> "external_host must be provided", node |-> <<>>, newHost |-> <<>>]
    ELSE IF c.NetworkKey = ""
    THEN [err |-> "network_key must be provided", node |-> <<>>, newHost |-> <<>>]
    ELSE LET d == WithDefaults(c)
         IN  IF hostOk
             THEN [err |-> "", node |-> <<[cfg |-> d, host |-> HostOptions(d)]>>,
                   newHost |-> <<HostOptions(d)>>]
             ELSE [err |-> "new host", node |-> <<>>, newHost |-> <<HostOptions(d)>>]

\* multiaddr.NewMultiaddr succeeds on a well-formed address, peernet.go:97
ParsesAsMultiaddr(addr) == addr = "/ip4/10.0.0.1/tcp/9157/p2p/QmPeer"

(***************************************************************************)
(* media.FeedItem, the wire payload and json.Unmarshal                     *)
(***************************************************************************)
CategoryLabels == {"tv", "movie"}
Categories == SUBSET CategoryLabels

\* util.ContainsTvCategory / util.ContainsMovieCategory, called at main.go:220,223
ContainsTvCategory(cat) == "tv" \in cat
ContainsMovieCategory(cat) == "movie" \in cat

\* new(media.FeedItem): every field has its zero value
ZeroFeedItem == [TvdbId |-> "", ImdbId |-> "", TmdbId |-> "", Category |-> {}, Title |-> ""]

\* a JSON member of the payload: absent, a JSON string, or a JSON number
JAbsent == [t |-> "absent", v |-> ""]
JString(s) == [t |-> "string", v |-> s]
JNumber(s) == [t |-> "number", v |-> s]

TvdbValues == {JAbsent, JString("121361"), JNumber("121361")}
ImdbValues == {JAbsent, JString("tt0110912")}
TmdbValues == {JAbsent, JString("603"), JString("")}

\* the bytes of one inbound message: not JSON at all, or a JSON object
Garbage == [syntax |-> FALSE, tvdb |-> JAbsent, imdb |-> JAbsent, tmdb |-> JAbsent, category |-> {}]
Payloads ==
    {Garbage} \cup
    [syntax : {TRUE}, tvdb : TvdbValues, imdb : ImdbValues, tmdb : TmdbValues,
     category : Categories]

\* a string field of the target struct: an absent member leaves the zero value,
\* a JSON string is stored
StringField(j) == IF j.t = "string" THEN j.v ELSE ""

\* json.Unmarshal(data, fi), main.go:209-210.  Bytes that are not JSON are an error
\* and leave fi untouched; a JSON number for a string field is an error too, but the
\* other members are still stored
Unmarshal(data) ==
    IF ~data.syntax
    THEN [err |-> TRUE, fi |-> ZeroFeedItem]
    ELSE [err |-> \E j \in {data.tvdb, data.imdb, data.tmdb} : j.t = "number",
          fi |-> [ZeroFeedItem EXCEPT !.TvdbId = StringField(data.tvdb),
                                      !.ImdbId = StringField(data.imdb),
                                      !.TmdbId = StringField(data.tmdb),
                                      !.Category = data.category]]

(***************************************************************************)
(* The routing switch of pnHandler                                         *)
(***************************************************************************)
PvrTypes == {"sonarr", "radarr", "lidarr"}

\* the switch with the TV case accepting only a tvdb id
SwitchCaseTvdbOnly(fi, type) ==
    IF fi.TvdbId # "" /\ ContainsTvCategory(fi.Category) /\ type = "sonarr"
    THEN "sonarr"
    ELSE IF (fi.ImdbId # "" \/ fi.TmdbId # "") /\ ContainsMovieCategory(fi.Category)
            /\ type = "radarr"
    THEN "radarr"
    ELSE "none"

\* the switch with the movie case accepting only an imdb id
SwitchCaseImdbOnly(fi, type) ==
    IF (fi.TvdbId # "" \/ fi.TmdbId # "") /\ ContainsTvCategory(fi.Category)
       /\ type = "sonarr"
    THEN "sonarr"
    ELSE IF fi.ImdbId # "" /\ ContainsMovieCategory(fi.Category) /\ type = "radarr"
    THEN "radarr"
    ELSE "none"

\* the switch without the identifier checks
SwitchCaseNoIds(fi, type) ==
    IF ContainsTvCategory(fi.Category) /\ type = "sonarr"
    THEN "sonarr"
    ELSE IF ContainsMovieCategory(fi.Category) /\ type = "radarr"
    THEN "radarr"
    ELSE "none"

\* main.go:219-226: the case of the switch taken for item fi and a pvr of the given
\* type; both cases call p.QueueFeedItem(fi), "none" calls nothing
SwitchCase(fi, type) ==
    IF (fi.TvdbId # "" \/ fi.TmdbId # "") /\ ContainsTvCategory(fi.Category)
       /\ type = "sonarr"
    THEN "sonarr"
    ELSE IF (fi.ImdbId # "" \/ fi.TmdbId # "") /\ ContainsMovieCategory(fi.Category)
            /\ type = "radarr"
    THEN "radarr"
    ELSE "none"

(***************************************************************************)
(* Configuration and command line                                          *)
(***************************************************************************)
PvrNames == {"tv", "TV"}
PvrConfigs == [Name : PvrNames, Type : PvrTypes]

\* the sequences over S of length at most n
RECURSIVE SeqsUpTo(_, _)
SeqsUpTo(S, n) ==
    IF n = 0 THEN {<<>>}
    ELSE LET shorter == SeqsUpTo(S, n - 1)
         IN  shorter \cup {Append(l, x) : l \in {m \in shorter : Len(m) = n - 1}, x \in S}

AllPvrLists == SeqsUpTo(PvrConfigs, MaxPvrs)

\* strings.ToLower on the names used here
ToLower(s) == IF s = "TV" THEN "tv" ELSE s

\* strings.EqualFold, main.go:168
EqualFold(a, b) == ToLower(a) = ToLower(b)

\* --id values of the test command: the three agents, one without ":" and one with
\* an agent that is not supported
TestIds == {"tvdb:121361", "imdb:tt0110912", "tmdb:603", "121361", "anidb:1"}

\* strings.Split(cli.Test.Id, ":"), main.go:272
SplitId(id) ==
    CASE id = "tvdb:121361" -> <<"tvdb", "121361">>
      [] id = "imdb:tt0110912" -> <<"imdb", "tt0110912">>
      [] id = "tmdb:603" -> <<"tmdb", "603">>
      [] id = "anidb:1" -> <<"anidb", "1">>
      [] OTHER -> <<id>>

\* cli.Test when the command is not "test"
NoTest == [Pvr |-> "", Id |-> ""]

(***************************************************************************)
(* github.com/lefelys/state: a state is the set of the shutdownable        *)
(* components it holds and the dependency edges between them; <<a, b>>     *)
(* says that a depends on b.                                               *)
(***************************************************************************)
\* state.Empty()
Empty == [nodes |-> {}, edges |-> {}]

\* state.WithShutdown(), as returned by Start() of component x
WithShutdown(x) == [nodes |-> {x}, edges |-> {}]

\* state.Merge(states...)
Merge(states) ==
    [nodes |-> UNION {states[i].nodes : i \in DOMAIN states},
     edges |-> UNION {states[i].edges : i \in DOMAIN states}]

\* s.DependsOn(child)
DependsOn(s, child) ==
    [nodes |-> s.nodes \cup child.nodes,
     edges |-> s.edges \cup child.edges \cup (s.nodes \X child.nodes)]

\* the components x waits for
DepsOf(st, x) == {e[2] : e \in {d \in st.edges : d[1] = x}}

\* the aggregate with the scheduler merged in beside the processors
AppStateNoDependency(states, rss) == Merge(Append(states, rss))

\* main.go:317
AppState(states, rss) == DependsOn(Merge(states), rss)

RssId == <<"rss", 0>>
PvrId(i) == <<"pvr", i>>

(***************************************************************************)
(* State                                                                   *)
(***************************************************************************)
VARIABLES
    command,      \* ctx.Command(): "run" or "test"
    cli,          \* cli.Test: [Pvr, Id]
    cfg,          \* the decoded config: [Pvrs, Peernet, Feeds]
    blocking,     \* the processors whose QueueFeedItem does not return
    inbound,      \* the messages peers still broadcast: <<topic, payload>>, in order
    pc,           \* where main() is
    pvrIdx,       \* position of the loop over cfg.Pvrs
    feedIdx,      \* position of the loop over cfg.Rss.Feeds
    exitMsg,      \* what main() logged as it returned: [msg, err], both "" for none
    pvrs,         \* the map pvrs: name -> processor (its index in cfg.Pvrs)
    pvrStates,    \* the slice pvrStates
    rssState,     \* rssState
    life,         \* each started component: "running", "stopping" or "done"
    node,         \* pn: <<>> before peernet.New, <<node>> after
    newHostCalls, \* the options of every p2p.NewHost call
    calls,        \* the calls made on the host, in order
    tasks,        \* the goroutines pnHandler spawned, one per message
    returned,     \* what pnHandler returned to the overlay, one per message
    inHandler,    \* the message whose pnHandler call has not returned yet, 0 for none
    heap,         \* the FeedItem objects allocated: pointer -> value
    queued,       \* per processor, the pointers QueueFeedItem was given
    testTodo,     \* test mode: the pvrs the loop at main.go:298 still visits
    now,          \* seconds since Shutdown was called
    appCtx,       \* <<>>, or <<deadline>> once context.WithTimeout ran
    appState,     \* the aggregate state of main.go:317
    shutdownRet   \* what Shutdown returned: "" (not yet), "nil" or "timeout"

inputs == <<command, cli, cfg, blocking>>
regVars == <<pvrs, pvrStates, rssState>>
netVars == <<node, newHostCalls, calls>>
taskVars == <<tasks, returned, inHandler, heap, queued>>
shutVars == <<now, appCtx, appState, shutdownRet>>
vars == <<inputs, inbound, pc, pvrIdx, feedIdx, exitMsg, regVars, life, netVars, taskVars,
          testTodo, shutVars>>

\* new(media.FeedItem) of the test item, main.go:281
TestPtr == 0

\* p.Type() of processor i
PvrType(i) == cfg.Pvrs[i].Type

\* a return statement of main(): the deferred calls run, then the process exits
Return(msg, err) == pc' = "deferred" /\ exitMsg' = [msg |-> msg, err |-> err]

\* the state after flag parsing, logger, config, cache and media set-up
\* (main.go:61-161), for the given inputs
Start(cmd, test, config, blocked, msgs) ==
    /\ command = cmd /\ cli = test /\ cfg = config /\ blocking = blocked
    /\ inbound = msgs
    /\ pc = "pvrs" /\ pvrIdx = 1 /\ feedIdx = 1 /\ exitMsg = [msg |-> "", err |-> ""]
    /\ pvrs = << >> /\ pvrStates = << >> /\ rssState = Empty
    /\ life = << >>
    /\ node = << >> /\ newHostCalls = << >> /\ calls = << >>
    /\ tasks = << >> /\ returned = << >> /\ inHandler = 0 /\ heap = << >> /\ queued = << >>
    /\ testTodo = {}
    /\ now = 0 /\ appCtx = << >> /\ appState = Empty /\ shutdownRet = ""

(***************************************************************************)
(* main(): the pvr loop                                                    *)
(***************************************************************************)
\* one iteration of the loop over cfg.Pvrs, main.go:167-190
InitPvr ==
    /\ pc = "pvrs" /\ pvrIdx <= Len(cfg.Pvrs)
    /\ LET p == cfg.Pvrs[pvrIdx]
       IN  IF command = "run" \/ (command = "test" /\ EqualFold(cli.Pvr, p.Name))
           THEN \E ok \in BOOLEAN :
                  IF ok
                  THEN /\ pvrStates' = Append(pvrStates, WithShutdown(PvrId(pvrIdx)))
                       /\ life' = life @@ (PvrId(pvrIdx) :> "running")
                       /\ queued' = queued @@ (pvrIdx :> << >>)
                       /\ pvrs' = [n \in DOMAIN pvrs \cup {p.Name} |->
                                     IF n = p.Name THEN pvrIdx ELSE pvrs[n]]
                       /\ pvrIdx' = pvrIdx + 1
                       /\ UNCHANGED <<pc, exitMsg>>
                  ELSE /\ Return("Failed initialising pvr", "new pvr")
                       /\ UNCHANGED <<pvrStates, life, queued, pvrs, pvrIdx>>
           ELSE /\ pvrIdx' = pvrIdx + 1
                /\ UNCHANGED <<pc, exitMsg, pvrStates, life, queued, pvrs>>
    /\ UNCHANGED <<inputs, inbound, feedIdx, rssState, netVars, tasks, returned, inHandler,
                   heap, testTodo, shutVars>>

(***************************************************************************)
(* main(): run mode                                                        *)
(***************************************************************************)
\* peernet.New called without waiting for the end of the loop over cfg.Pvrs
PeernetNewEarly ==
    /\ pc = "pvrs" /\ command = "run"
    /\ \E hostOk \in BOOLEAN :
         LET r == New(cfg.Peernet, hostOk)
         IN  /\ newHostCalls' = newHostCalls \o r.newHost
             /\ node' = r.node
             /\ IF r.err = ""
                THEN pc' = "subscribe_sonarr" /\ UNCHANGED exitMsg
                ELSE Return("Failed initialising peernet", r.err)
    /\ UNCHANGED <<inputs, inbound, pvrIdx, feedIdx, regVars, life, calls, taskVars,
                   testTodo, shutVars>>

\* main.go:193-201
PeernetNew ==
    /\ pc = "pvrs" /\ pvrIdx > Len(cfg.Pvrs) /\ command = "run"
    /\ \E hostOk \in BOOLEAN :
         LET r == New(cfg.Peernet, hostOk)
         IN  /\ newHostCalls' = newHostCalls \o r.newHost
             /\ node' = r.node
             /\ IF r.err = ""
                THEN pc' = "subscribe_sonarr" /\ UNCHANGED exitMsg
                ELSE Return("Failed initialising peernet", r.err)
    /\ UNCHANGED <<inputs, inbound, pvrIdx, feedIdx, regVars, life, calls, taskVars,
                   testTodo, shutVars>>

\* pn.Subscribe whose error main() does not look at
SubscribeIgnoringError(topic, at, next) ==
    /\ pc = at
    /\ \E ok \in BOOLEAN :
         /\ calls' = IF ok THEN Append(calls, [op |-> "AddBroadcastPubSub", arg |-> topic])
                     ELSE calls
         /\ pc' = next /\ UNCHANGED exitMsg
    /\ UNCHANGED <<inputs, inbound, pvrIdx, feedIdx, regVars, life, node, newHostCalls,
                   taskVars, testTodo, shutVars>>

\* pn.Subscribe(topic, pnHandler): host.AddBroadcastPubSub, which may fail
Subscribe(topic, at, next) ==
    /\ pc = at
    /\ \E ok \in BOOLEAN :
         IF ok
         THEN /\ calls' = Append(calls, [op |-> "AddBroadcastPubSub", arg |-> topic])
              /\ pc' = next /\ UNCHANGED exitMsg
         ELSE /\ Return("Failed subscribing to peernet topic", "add broadcast pubsub")
              /\ UNCHANGED calls
    /\ UNCHANGED <<inputs, inbound, pvrIdx, feedIdx, regVars, life, node, newHostCalls,
                   taskVars, testTodo, shutVars>>

\* main.go:234-239
SubscribeSonarr == Subscribe("sonarr", "subscribe_sonarr", "subscribe_radarr")

\* main.go:241-246
SubscribeRadarr == Subscribe("radarr", "subscribe_radarr", "bootstrap")

\* the topics a handler is registered for
Subscribed == {calls[i].arg : i \in {j \in DOMAIN calls : calls[j].op = "AddBroadcastPubSub"}}

\* Node.Bootstrap without the test for an empty address: the address is parsed
BootstrapNoEmptyCheck ==
    /\ pc = "bootstrap"
    /\ LET addr == node[1].cfg.BootstrapNode
           parse == [op |-> "NewMultiaddr", arg |-> addr]
           connect == [op |-> "ConnectWithMultiaddr", arg |-> addr]
           join == [op |-> "JoinOverlay", arg |-> ""]
       IN  IF ~ParsesAsMultiaddr(addr)
           THEN /\ calls' = Append(calls, parse)
                /\ Return("Failed bootstrapping peernet", "parse bootstrap_node")
           ELSE \E connected \in BOOLEAN :
                  IF connected
                  THEN /\ calls' = calls \o <<parse, connect, join>>
                       /\ pc' = "rss" /\ UNCHANGED exitMsg
                  ELSE /\ calls' = calls \o <<parse, connect>>
                       /\ Return("Failed bootstrapping peernet", "connect bootstrap_node")
    /\ UNCHANGED <<inputs, inbound, pvrIdx, feedIdx, regVars, life, node, newHostCalls,
                   taskVars, testTodo, shutVars>>

\* Node.Bootstrap that joins the overlay first and does so whatever the connect gives
BootstrapJoinsFirst ==
    /\ pc = "bootstrap"
    /\ LET addr == node[1].cfg.BootstrapNode
           parse == [op |-> "NewMultiaddr", arg |-> addr]
           connect == [op |-> "ConnectWithMultiaddr", arg |-> addr]
           join == [op |-> "JoinOverlay", arg |-> ""]
       IN  IF addr = ""
           THEN pc' = "rss" /\ UNCHANGED <<calls, exitMsg>>
           ELSE IF ~ParsesAsMultiaddr(addr)
           THEN /\ calls' = Append(calls, parse)
                /\ Return("Failed bootstrapping peernet", "parse bootstrap_node")
           ELSE \E connected \in BOOLEAN :
                  /\ calls' = calls \o <<parse, join, connect>>
                  /\ IF connected
                     THEN pc' = "rss" /\ UNCHANGED exitMsg
                     ELSE Return("Failed bootstrapping peernet", "connect bootstrap_node")
    /\ UNCHANGED <<inputs, inbound, pvrIdx, feedIdx, regVars, life, node, newHostCalls,
                   taskVars, testTodo, shutVars>>

\* main.go:248-253 with Node.Bootstrap, peernet.go:88-110
Bootstrap ==
    /\ pc = "bootstrap"
    /\ LET addr == node[1].cfg.BootstrapNode
           parse == [op |-> "NewMultiaddr", arg |-> addr]
           connect == [op |-> "ConnectWithMultiaddr", arg |-> addr]
           join == [op |-> "JoinOverlay", arg |-> ""]
       IN  IF addr = ""
           THEN pc' = "rss" /\ UNCHANGED <<calls, exitMsg>>
           ELSE IF ~ParsesAsMultiaddr(addr)
           THEN /\ calls' = Append(calls, parse)
                /\ Return("Failed bootstrapping peernet", "parse bootstrap_node")
           ELSE \E connected \in BOOLEAN :
                  IF connected
                  THEN /\ calls' = calls \o <<parse, connect, join>>
                       /\ pc' = "rss" /\ UNCHANGED exitMsg
                  ELSE /\ calls' = calls \o <<parse, connect>>
                       /\ Return("Failed bootstrapping peernet", "connect bootstrap_node")
    /\ UNCHANGED <<inputs, inbound, pvrIdx, feedIdx, regVars, life, node, newHostCalls,
                   taskVars, testTodo, shutVars>>

\* Node.Close, peernet.go:112-114: closes the host. main() has no call of it.
Close ==
    /\ Len(node) = 1
    /\ calls' = Append(calls, [op |-> "Close", arg |-> ""])
    /\ UNCHANGED <<inputs, inbound, pc, pvrIdx, feedIdx, exitMsg, regVars, life, node,
                   newHostCalls, taskVars, testTodo, shutVars>>

\* the feed loop whose failure goes on to the shutdown instead of returning
AddJobFailureShutsDown ==
    /\ pc = "rss" /\ feedIdx <= cfg.Feeds
    /\ \E ok \in BOOLEAN :
         IF ok
         THEN feedIdx' = feedIdx + 1 /\ UNCHANGED <<pc, exitMsg>>
         ELSE /\ pc' = "shutdown"
              /\ exitMsg' = [msg |-> "Failed initialising rss", err |-> "add job"]
              /\ UNCHANGED feedIdx
    /\ UNCHANGED <<inputs, inbound, pvrIdx, regVars, life, netVars, taskVars, testTodo, shutVars>>

\* one iteration of the loop over cfg.Rss.Feeds, main.go:258-265
AddJob ==
    /\ pc = "rss" /\ feedIdx <= cfg.Feeds
    /\ \E ok \in BOOLEAN :
         IF ok
         THEN feedIdx' = feedIdx + 1 /\ UNCHANGED <<pc, exitMsg>>
         ELSE Return("Failed initialising rss", "add job") /\ UNCHANGED feedIdx
    /\ UNCHANGED <<inputs, inbound, pvrIdx, regVars, life, netVars, taskVars, testTodo, shutVars>>

\* rssState = r.Start(), main.go:266
RssStart ==
    /\ pc = "rss" /\ feedIdx > cfg.Feeds
    /\ rssState' = WithShutdown(RssId)
    /\ life' = life @@ (RssId :> "running")
    /\ pc' = "wait_shutdown"
    /\ UNCHANGED <<inputs, inbound, pvrIdx, feedIdx, exitMsg, pvrs, pvrStates, netVars,
                   taskVars, testTodo, shutVars>>

\* waitShutdown() returns when the process is asked to terminate, main.go:269
WaitShutdown ==
    /\ pc = "wait_shutdown"
    /\ pc' = "shutdown"
    /\ UNCHANGED <<inputs, inbound, pvrIdx, feedIdx, exitMsg, regVars, life, netVars,
                   taskVars, testTodo, shutVars>>

(***************************************************************************)
(* main(): test mode                                                       *)
(***************************************************************************)
\* main.go:272-295: split the id and prepare the test item
TestPrepare ==
    /\ pc = "pvrs" /\ pvrIdx > Len(cfg.Pvrs) /\ command = "test"
    /\ LET idParts == SplitId(cli.Id)
       IN  IF Len(idParts) < 2
           THEN Return("An invalid id was provided", "") /\ UNCHANGED <<heap, testTodo>>
           ELSE IF ToLower(idParts[1]) \notin {"imdb", "tmdb", "tvdb"}
           THEN Return("Unsupported agent was provided", "") /\ UNCHANGED <<heap, testTodo>>
           ELSE /\ heap' = heap @@ (TestPtr :>
                      CASE ToLower(idParts[1]) = "imdb" ->
                               [ZeroFeedItem EXCEPT !.ImdbId = idParts[2]]
                        [] ToLower(idParts[1]) = "tmdb" ->
                               [ZeroFeedItem EXCEPT !.TmdbId = idParts[2]]
                        [] ToLower(idParts[1]) = "tvdb" ->
                               [ZeroFeedItem EXCEPT !.TvdbId = idParts[2]])
                /\ testTodo' = DOMAIN pvrs
                /\ pc' = "test_queue" /\ UNCHANGED exitMsg
    /\ UNCHANGED <<inputs, inbound, pvrIdx, feedIdx, regVars, life, netVars, tasks, returned,
                   inHandler, queued, shutVars>>

\* one iteration of the loop at main.go:298-307: the title is set on the one test
\* item, which is then queued
TestQueue ==
    /\ pc = "test_queue"
    /\ \E n \in testTodo :
         /\ pvrs[n] \notin blocking
         /\ heap' = [heap EXCEPT ![TestPtr].Title =
                        IF PvrType(pvrs[n]) = "sonarr" THEN "Test.Mode.S01E01"
                        ELSE "Test.Mode.2021"]
         /\ queued' = [queued EXCEPT ![pvrs[n]] = Append(@, TestPtr)]
         /\ testTodo' = testTodo \ {n}
    /\ UNCHANGED <<inputs, inbound, pc, pvrIdx, feedIdx, exitMsg, regVars, life, netVars,
                   tasks, returned, inHandler, shutVars>>

\* time.Sleep(1 * time.Second), main.go:310
TestSleep ==
    /\ pc = "test_queue" /\ testTodo = {}
    /\ pc' = "shutdown"
    /\ UNCHANGED <<inputs, inbound, pvrIdx, feedIdx, exitMsg, regVars, life, netVars,
                   taskVars, testTodo, shutVars>>

(***************************************************************************)
(* main(): shutdown                                                        *)
(***************************************************************************)
\* the call with a context whose deadline is the instant of the call
ShutdownCallNoTimeout ==
    /\ pc = "shutdown"
    /\ appCtx' = <<now>>
    /\ appState' = AppState(pvrStates, rssState)
    /\ pc' = "in_shutdown"
    /\ UNCHANGED <<inputs, inbound, pvrIdx, feedIdx, exitMsg, regVars, life, netVars,
                   taskVars, testTodo, now, shutdownRet>>

\* main.go:314-318: the context with its deadline, the aggregate, the call
ShutdownCall ==
    /\ pc = "shutdown"
    /\ appCtx' = <<now + ShutdownTimeout>>
    /\ appState' = AppState(pvrStates, rssState)
    /\ pc' = "in_shutdown"
    /\ UNCHANGED <<inputs, inbound, pvrIdx, feedIdx, exitMsg, regVars, life, netVars,
                   taskVars, testTodo, now, shutdownRet>>

\* x may be told to stop as soon as it is running
MaySignalAnyTime(st, lf, x) == lf[x] = "running"

\* x may be told to stop: it is running and all it depends on has finished
MaySignal(st, lf, x) ==
    lf[x] = "running" /\ \A d \in DepsOf(st, x) : lf[d] = "done"

\* Shutdown signals component x to stop (its End channel is closed)
SignalStop(x) ==
    /\ pc = "in_shutdown"
    /\ x \in appState.nodes
    /\ MaySignal(appState, life, x)
    /\ life' = [life EXCEPT ![x] = "stopping"]
    /\ UNCHANGED <<inputs, inbound, pc, pvrIdx, feedIdx, exitMsg, regVars, netVars, taskVars,
                   testTodo, shutVars>>

\* component x, told to stop, finishes (its tail calls Done)
ComponentDone(x) ==
    /\ pc # "exit"
    /\ x \in DOMAIN life /\ life[x] = "stopping"
    /\ life' = [life EXCEPT ![x] = "done"]
    /\ UNCHANGED <<inputs, inbound, pc, pvrIdx, feedIdx, exitMsg, regVars, netVars, taskVars,
                   testTodo, shutVars>>

\* time passes while Shutdown waits
Tick ==
    /\ pc = "in_shutdown" /\ now < appCtx[1]
    /\ now' = now + TickSeconds
    /\ UNCHANGED <<inputs, inbound, pc, pvrIdx, feedIdx, exitMsg, regVars, life, netVars,
                   taskVars, testTodo, appCtx, appState, shutdownRet>>

\* the deadline of ctx has passed
Expired(ctx, t) == t >= ctx[1]

\* Shutdown returns nil: every component of the aggregate has finished
ShutdownDone ==
    /\ pc = "in_shutdown"
    /\ \A x \in appState.nodes : life[x] = "done"
    /\ shutdownRet' = "nil"
    /\ Return("", "")
    /\ UNCHANGED <<inputs, inbound, pvrIdx, feedIdx, regVars, life, netVars, taskVars,
                   testTodo, now, appCtx, appState>>

\* Shutdown returns the timeout error, which main logs, main.go:318-323
ShutdownTimedOut ==
    /\ pc = "in_shutdown"
    /\ Expired(appCtx, now)
    /\ shutdownRet' = "timeout"
    /\ Return("Failed shutting down gracefully", "timeout")
    /\ UNCHANGED <<inputs, inbound, pvrIdx, feedIdx, regVars, life, netVars, taskVars,
                   testTodo, now, appCtx, appState>>

\* the deferred calls are done and the process ends, with every goroutine
Exit ==
    /\ pc = "deferred"
    /\ pc' = "exit"
    /\ UNCHANGED <<inputs, inbound, pvrIdx, feedIdx, exitMsg, regVars, life, netVars,
                   taskVars, testTodo, shutVars>>

(***************************************************************************)
(* pnHandler and the goroutine it spawns per message                       *)
(***************************************************************************)
Topics == {"sonarr", "radarr"}

\* the body of pnHandler run as a plain call instead of a go statement
CalledTask(topic, data) ==
    [pc |-> "decode", goroutine |-> FALSE, topic |-> topic, data |-> data,
     todo |-> {}, cur |-> ""]

\* go func(ctx, data) {...}(ctx, data), main.go:207-230
SpawnedTask(topic, data) ==
    [pc |-> "decode", goroutine |-> TRUE, topic |-> topic, data |-> data,
     todo |-> {}, cur |-> ""]

\* the goroutine has returned
Finished(task) == task.pc \in {"done", "dropped"}

\* the overlay hands the next inbound message, of a subscribed topic, to pnHandler,
\* which starts the goroutine, main.go:203-207
HandlerCall ==
    /\ pc # "exit"
    /\ inbound # << >>
    /\ Head(inbound)[1] \in Subscribed
    /\ inHandler = 0
    /\ tasks' = Append(tasks, SpawnedTask(Head(inbound)[1], Head(inbound)[2]))
    /\ inbound' = Tail(inbound)
    /\ inHandler' = Len(tasks) + 1
    /\ UNCHANGED <<inputs, pc, pvrIdx, feedIdx, exitMsg, regVars, life, netVars,
                   returned, heap, queued, testTodo, shutVars>>

\* return nil, main.go:231: a go statement is not waited for, a call is
HandlerReturn ==
    /\ pc # "exit"
    /\ inHandler # 0
    /\ tasks[inHandler].goroutine \/ Finished(tasks[inHandler])
    /\ returned' = Append(returned, "nil")
    /\ inHandler' = 0
    /\ UNCHANGED <<inputs, inbound, pc, pvrIdx, feedIdx, exitMsg, regVars, life, netVars,
                   tasks, heap, queued, testTodo, shutVars>>

\* after a decode error the loop runs on the zero item
AfterDecodeNoReturn(t, r) ==
    [t EXCEPT !.pc = IF DOMAIN pvrs = {} THEN "done" ELSE "range", !.todo = DOMAIN pvrs]

\* main.go:210-218: a decode error ends the goroutine, else the range over pvrs starts
AfterDecode(t, r) ==
    IF r.err
    THEN [t EXCEPT !.pc = "dropped"]
    ELSE [t EXCEPT !.pc = IF DOMAIN pvrs = {} THEN "done" ELSE "range",
                   !.todo = DOMAIN pvrs]

\* fi := new(media.FeedItem); json.Unmarshal(data, fi), main.go:209-215
Decode(t) ==
    /\ pc # "exit"
    /\ t \in DOMAIN tasks /\ tasks[t].pc = "decode"
    /\ LET r == Unmarshal(tasks[t].data)
       IN  /\ heap' = heap @@ (t :> r.fi)
           /\ tasks' = [tasks EXCEPT ![t] = AfterDecode(@, r)]
    /\ UNCHANGED <<inputs, inbound, pc, pvrIdx, feedIdx, exitMsg, regVars, life, netVars,
                   returned, inHandler, queued, testTodo, shutVars>>

\* the task once the pvr named n has been dealt with
Visited(task, n) ==
    [task EXCEPT !.todo = @ \ {n}, !.cur = "",
                 !.pc = IF task.todo \ {n} = {} THEN "done" ELSE "range"]

\* the range stops at the first pvr that was queued
VisitedBreak(task, n) == [task EXCEPT !.todo = {}, !.cur = "", !.pc = "done"]

\* the range over pvrs where a pvr is queued only for messages of the topic of its type
RangePvrsOfTopic(t) ==
    /\ pc # "exit"
    /\ t \in DOMAIN tasks /\ tasks[t].pc = "range"
    /\ \E n \in tasks[t].todo :
         tasks' = [tasks EXCEPT ![t] =
                     IF \/ SwitchCase(heap[t], PvrType(pvrs[n])) = "none"
                        \/ PvrType(pvrs[n]) # tasks[t].topic
                     THEN Visited(@, n)
                     ELSE [@ EXCEPT !.pc = "queue", !.cur = n]]
    /\ UNCHANGED <<inputs, inbound, pc, pvrIdx, feedIdx, exitMsg, regVars, life, netVars,
                   returned, inHandler, heap, queued, testTodo, shutVars>>

\* one iteration of "for _, p := range pvrs", main.go:218-227, up to the call of
\* p.QueueFeedItem; the order of a map range is not fixed
RangePvrs(t) ==
    /\ pc # "exit"
    /\ t \in DOMAIN tasks /\ tasks[t].pc = "range"
    /\ \E n \in tasks[t].todo :
         tasks' = [tasks EXCEPT ![t] =
                     IF SwitchCase(heap[t], PvrType(pvrs[n])) = "none"
                     THEN Visited(@, n)
                     ELSE [@ EXCEPT !.pc = "queue", !.cur = n]]
    /\ UNCHANGED <<inputs, inbound, pc, pvrIdx, feedIdx, exitMsg, regVars, life, netVars,
                   returned, inHandler, heap, queued, testTodo, shutVars>>

\* p.QueueFeedItem(fi) that is made only while the processor has not been told to stop
QueueFeedItemWhileRunning(t) ==
    /\ pc # "exit"
    /\ t \in DOMAIN tasks /\ tasks[t].pc = "queue"
    /\ pvrs[tasks[t].cur] \notin blocking
    /\ life[PvrId(pvrs[tasks[t].cur])] = "running"
    /\ queued' = [queued EXCEPT ![pvrs[tasks[t].cur]] = Append(@, t)]
    /\ tasks' = [tasks EXCEPT ![t] = Visited(@, tasks[t].cur)]
    /\ UNCHANGED <<inputs, inbound, pc, pvrIdx, feedIdx, exitMsg, regVars, life, netVars,
                   returned, inHandler, heap, testTodo, shutVars>>

\* p.QueueFeedItem(fi) returns, main.go:222,225: the processor has the pointer fi
QueueFeedItem(t) ==
    /\ pc # "exit"
    /\ t \in DOMAIN tasks /\ tasks[t].pc = "queue"
    /\ pvrs[tasks[t].cur] \notin blocking
    /\ queued' = [queued EXCEPT ![pvrs[tasks[t].cur]] = Append(@, t)]
    /\ tasks' = [tasks EXCEPT ![t] = Visited(@, tasks[t].cur)]
    /\ UNCHANGED <<inputs, inbound, pc, pvrIdx, feedIdx, exitMsg, regVars, life, netVars,
                   returned, inHandler, heap, testTodo, shutVars>>

(***************************************************************************)
(* The program: main() with its handlers, over a small set of inputs       *)
(***************************************************************************)
Sonarr(name) == [Name |-> name, Type |-> "sonarr"]
Radarr(name) == [Name |-> name, Type |-> "radarr"]

TvItem ==
    [syntax |-> TRUE, tvdb |-> JString("121361"), imdb |-> JAbsent, tmdb |-> JAbsent,
     category |-> {"tv"}]
MovieItem ==
    [syntax |-> TRUE, tvdb |-> JAbsent, imdb |-> JString("tt0110912"), tmdb |-> JAbsent,
     category |-> {"movie"}]

\* a number where a string is expected, beside members that decode
NumberItem ==
    [syntax |-> TRUE, tvdb |-> JNumber("121361"), imdb |-> JAbsent, tmdb |-> JString("603"),
     category |-> {"tv", "movie"}]

Messages == Topics \X Payloads

\* pvr lists, peernet configs and messages of the small runs
SmallPvrLists ==
    {l \in SeqsUpTo({Sonarr("tv"), Sonarr("TV"), Radarr("films")}, MaxPvrs) :
       /\ Len(l) = MaxPvrs /\ l[1] = Sonarr("tv")
       /\ \A i \in 2..Len(l) : l[i] # Sonarr("tv")}
SmallPeernetConfigs ==
    {c \in PeernetConfigs :
       /\ c.ExternalHost # "" /\ c.NetworkKey # "" /\ c.IdentityKey = "id"
       /\ c.ExternalPort = 0 /\ ParsesAsMultiaddr(c.BootstrapNode)}
SmallMessages ==
    {<<"sonarr", Garbage>>, <<"sonarr", TvItem>>, <<"radarr", MovieItem>>,
     <<"radarr", NumberItem>>}

\* no processor blocks, or the first one does
Blockings(list) == {{}} \cup {{1} : i \in DOMAIN list}

Init ==
    \/ \E config \in [Pvrs : SmallPvrLists, Peernet : SmallPeernetConfigs,
                      Feeds : {MaxFeeds}] :
         \E blocked \in Blockings(config.Pvrs), msgs \in SeqsUpTo(SmallMessages, MaxMsgs) :
           Start("run", NoTest, config, blocked, msgs)
    \/ \E list \in SmallPvrLists, peernet \in SmallPeernetConfigs :
         \E blocked \in Blockings(list) :
           Start("test", [Pvr |-> "tv", Id |-> "tvdb:121361"],
                 [Pvrs |-> list, Peernet |-> peernet, Feeds |-> 0], blocked, << >>)

\* the steps of main()
MainNext ==
    \/ InitPvr
    \/ PeernetNew
    \/ SubscribeSonarr
    \/ SubscribeRadarr
    \/ Bootstrap
    \/ AddJob
    \/ RssStart
    \/ WaitShutdown
    \/ TestPrepare
    \/ TestQueue
    \/ TestSleep
    \/ ShutdownCall
    \/ \E x \in appState.nodes : SignalStop(x)
    \/ \E x \in DOMAIN life : ComponentDone(x)
    \/ Tick
    \/ ShutdownDone
    \/ ShutdownTimedOut
    \/ Exit

\* the steps of the overlay's delivery path and of the goroutines of pnHandler
HandlerNext ==
    \/ HandlerCall
    \/ HandlerReturn
    \/ \E t \in DOMAIN tasks : Decode(t)
    \/ \E t \in DOMAIN tasks : RangePvrs(t)
    \/ \E t \in DOMAIN tasks : QueueFeedItem(t)

Next == MainNext \/ HandlerNext

Spec == Init /\ [][Next]_vars

(***************************************************************************)
(* main() alone, no peer broadcasting, over all its inputs                 *)
(***************************************************************************)
MainPvrLists == SeqsUpTo({Sonarr("tv"), Sonarr("TV"), Radarr("films")}, MaxPvrs)
MainPeernetConfigs ==
    {c \in PeernetConfigs : c.IdentityKey = "id" /\ c.ExternalPort \in {0, 8080}}

MainInit ==
    \/ \E config \in [Pvrs : MainPvrLists, Peernet : MainPeernetConfigs,
                      Feeds : 0..MaxFeeds] :
         Start("run", NoTest, config, {}, << >>)
    \/ \E list \in MainPvrLists, test \in [Pvr : {"tv", "films"}, Id : TestIds] :
         \E peernet \in {c \in MainPeernetConfigs :
                           c.ExternalHost = "" /\ c.BootstrapNode = ""} :
           \E blocked \in Blockings(list) :
             Start("test", test, [Pvrs |-> list, Peernet |-> peernet, Feeds |-> 0],
                   blocked, << >>)

MainSpec == MainInit /\ [][MainNext]_vars

(***************************************************************************)
(* peernet.New over all configs                                            *)
(***************************************************************************)
NewInit ==
    \E peernet \in PeernetConfigs :
      Start("run", NoTest, [Pvrs |-> << >>, Peernet |-> peernet, Feeds |-> 0], {}, << >>)

NewNext == PeernetNew

NewSpec == NewInit /\ [][NewNext]_vars

(***************************************************************************)
(* One inbound message, over all payloads and all registries: the state    *)
(* main() is in once it waits for the shutdown signal.                     *)
(***************************************************************************)
\* the map the loop over cfg.Pvrs builds: a later entry replaces an earlier one of
\* the same name
Registry(list) ==
    [n \in {list[i].Name : i \in DOMAIN list} |->
       CHOOSE i \in DOMAIN list :
         list[i].Name = n /\ \A j \in DOMAIN list : list[j].Name = n => j <= i]

Waiting(config, msgs) ==
    /\ command = "run" /\ cli = NoTest /\ cfg = config /\ blocking = {}
    /\ inbound = msgs
    /\ pc = "wait_shutdown" /\ pvrIdx = Len(config.Pvrs) + 1
    /\ feedIdx = config.Feeds + 1 /\ exitMsg = [msg |-> "", err |-> ""]
    /\ pvrs = Registry(config.Pvrs)
    /\ pvrStates = [i \in DOMAIN config.Pvrs |-> WithShutdown(PvrId(i))]
    /\ rssState = WithShutdown(RssId)
    /\ life = [x \in {PvrId(i) : i \in DOMAIN config.Pvrs} \cup {RssId} |-> "running"]
    /\ node = New(config.Peernet, TRUE).node
    /\ newHostCalls = New(config.Peernet, TRUE).newHost
    /\ calls = <<[op |-> "AddBroadcastPubSub", arg |-> "sonarr"],
                 [op |-> "AddBroadcastPubSub", arg |-> "radarr"]>>
    /\ tasks = << >> /\ returned = << >> /\ inHandler = 0 /\ heap = << >>
    /\ queued = [i \in DOMAIN config.Pvrs |-> << >>]
    /\ testTodo = {}
    /\ now = 0 /\ appCtx = << >> /\ appState = Empty /\ shutdownRet = ""

RouteInit ==
    \E list \in AllPvrLists, msg \in Messages :
      \E peernet \in {c \in SmallPeernetConfigs : TRUE} :
        Waiting([Pvrs |-> list, Peernet |-> [peernet EXCEPT !.BootstrapNode = ""],
                 Feeds |-> 0], <<msg>>)

RouteSpec == RouteInit /\ [][HandlerNext]_vars

(***************************************************************************)
(* Properties                                                              *)
(***************************************************************************)
\* how often x occurs in the sequence q
Count(q, x) == Cardinality({k \in DOMAIN q : q[k] = x})

\* main() has called peernet.New
NewCalled == command = "run" /\ pc # "pvrs" /\ exitMsg.msg # "Failed initialising pvr"

\* C9: peernet.New returns an error and creates no host when external_host is empty
\* or network_key is empty; when both are non-empty it calls p2p.NewHost once and
\* returns a node unless that call failed.
NewValidatesConfig ==
    NewCalled =>
      IF cfg.Peernet.ExternalHost = "" \/ cfg.Peernet.NetworkKey = ""
      THEN /\ node = << >> /\ newHostCalls = << >>
           /\ exitMsg.msg = "Failed initialising peernet"
           /\ exitMsg.err = IF cfg.Peernet.ExternalHost = ""
                            THEN "external_host must be provided"
                            ELSE "network_key must be provided"
      ELSE /\ Len(newHostCalls) = 1
           /\ \/ Len(node) = 1 /\ node[1].host = newHostCalls[1]
                 /\ exitMsg.msg # "Failed initialising peernet"
              \/ node = << >> /\ exitMsg = [msg |-> "Failed initialising peernet",
                                            err |-> "new host"]

\* C9 witness: a config without network_key was rejected and no host was created
NewRejectedConfig ==
    /\ NewCalled /\ cfg.Peernet.ExternalHost # "" /\ cfg.Peernet.NetworkKey = ""
    /\ pc = "deferred" /\ newHostCalls = << >>

\* C10: the port the host binds (Port) and advertises (ExternalPort) is 9157 when the
\* configured external_port is 0, and the configured port otherwise.
DefaultPortApplied ==
    LET want == IF cfg.Peernet.ExternalPort = 0 THEN 9157 ELSE cfg.Peernet.ExternalPort
    IN  /\ \A k \in DOMAIN newHostCalls :
             newHostCalls[k].Port = want /\ newHostCalls[k].ExternalPort = want
        /\ \A k \in DOMAIN node :
             /\ node[k].host.Port = want /\ node[k].host.ExternalPort = want
             /\ node[k].cfg.ExternalPort = want

\* C10 witness: a node built from external_port 0 listens on 9157
NodeOnDefaultPort ==
    Len(node) = 1 /\ cfg.Peernet.ExternalPort = 0 /\ node[1].host.Port = 9157

\* the processors the map pvrs holds
Registered == {pvrs[n] : n \in DOMAIN pvrs}

\* the payload of task t was decoded without error
Decoded(t) == tasks[t].pc \in {"range", "queue", "done"}

\* the TV rule and the movie rule, as stated for the item
TvRule(fi) == (fi.TvdbId # "" \/ fi.TmdbId # "") /\ "tv" \in fi.Category
MovieRule(fi) == (fi.ImdbId # "" \/ fi.TmdbId # "") /\ "movie" \in fi.Category

\* C2: a registered pvr of type "sonarr" is queued the item of a message, once, if and
\* only if the item has a tvdb or tmdb id and a TV category; a pvr of another type is
\* never queued an item on the strength of the TV rule.
TvRouting ==
    \A t \in DOMAIN tasks : Decoded(t) =>
      \A i \in Registered :
        /\ PvrType(i) = "sonarr" =>
             /\ Count(queued[i], t) = 1 => TvRule(heap[t])
             /\ (tasks[t].pc = "done" /\ TvRule(heap[t])) => Count(queued[i], t) = 1
             /\ Count(queued[i], t) <= 1
        /\ PvrType(i) \notin {"sonarr", "radarr"} => Count(queued[i], t) = 0
        /\ (PvrType(i) = "radarr" /\ ~MovieRule(heap[t])) => Count(queued[i], t) = 0

\* C2 witness: an item without tvdb id, with a tmdb id and a TV category, has been
\* queued with a sonarr pvr and the goroutine is done
TvItemQueuedByTmdb ==
    \E t \in DOMAIN tasks, i \in Registered :
      /\ tasks[t].pc = "done" /\ PvrType(i) = "sonarr"
      /\ heap[t].TvdbId = "" /\ heap[t].TmdbId # "" /\ Count(queued[i], t) = 1

NoIds(data) ==
    /\ data.syntax
    /\ \A j \in {data.tvdb, data.imdb, data.tmdb} : j.t = "absent" \/ j = JString("")

\* C4: a message whose item has no tvdb, imdb and tmdb id is queued with no pvr,
\* whatever its category and the registry, and is no error: pnHandler returns nil and
\* the goroutine does not take the error path.
NoIdsNotRouted ==
    /\ \A t \in DOMAIN tasks : NoIds(tasks[t].data) =>
         /\ tasks[t].pc # "dropped"
         /\ \A i \in DOMAIN queued : Count(queued[i], t) = 0
    /\ \A k \in DOMAIN returned : returned[k] = "nil"

\* C4 witness: an item without ids and with a TV category went through the whole
\* range over a registry that holds a sonarr pvr
NoIdsItemDone ==
    \E t \in DOMAIN tasks, i \in Registered :
      /\ NoIds(tasks[t].data) /\ tasks[t].pc = "done" /\ "tv" \in heap[t].Category
      /\ PvrType(i) = "sonarr" /\ Len(returned) = t

\* every registered pvr whose class matches has been queued the item of a finished
\* goroutine
FanOutToAll ==
    \A t \in DOMAIN tasks : tasks[t].pc = "done" =>
      \A i \in Registered :
        \/ PvrType(i) = "sonarr" /\ TvRule(heap[t])
        \/ PvrType(i) = "radarr" /\ MovieRule(heap[t])
        => Count(queued[i], t) = 1

\* no FeedItem object is held by two processors
IndependentCopies ==
    \A i \in DOMAIN queued, j \in DOMAIN queued : i # j =>
      \A a \in DOMAIN queued[i], b \in DOMAIN queued[j] : queued[i][a] # queued[j][b]

\* C5: every matching pvr is queued the item, and each is given a FeedItem of its
\* own, so that no two processors hold the same object.
FanOutIndependentCopies == FanOutToAll /\ IndependentCopies

\* the consumer processors started so far
Processors == {x \in DOMAIN life : x[1] = "pvr"}

\* C1: no consumer processor is told to stop before the rss scheduler, on which the
\* aggregate of the processors depends, has finished stopping.
SchedulerStopsFirst ==
    \A x \in Processors :
      (life[x] # "running" /\ RssId \in DOMAIN life) => life[RssId] = "done"

\* C1 witness: Shutdown has told two processors to stop, after the scheduler finished
TwoProcessorsStopping ==
    /\ pc = "in_shutdown" /\ RssId \in DOMAIN life /\ life[RssId] = "done"
    /\ \E x \in Processors, y \in Processors :
         x # y /\ life[x] = "stopping" /\ life[y] = "stopping"

\* C8: Shutdown returns nil only when every component of the aggregate has finished
\* and the timeout error, which main logs, only when 60 seconds have passed; it can
\* return as soon as either is the case; a component told to stop is never set back
\* to running and can still finish after Shutdown returned the timeout.
ShutdownIsDeadlineBounded ==
    /\ [](shutdownRet = "nil" => \A x \in appState.nodes : life[x] = "done")
    /\ [](shutdownRet = "timeout" =>
            /\ now >= 60
            /\ exitMsg = [msg |-> "Failed shutting down gracefully", err |-> "timeout"])
    /\ [](shutdownRet # "" <=> (pc \in {"deferred", "exit"} /\ appCtx # << >>))
    /\ []((pc = "in_shutdown" /\ \A x \in appState.nodes : life[x] = "done")
            => ENABLED ShutdownDone)
    /\ []((pc = "in_shutdown" /\ now >= 60) => ENABLED ShutdownTimedOut)
    /\ [](\A x \in DOMAIN life :
            (pc = "deferred" /\ life[x] = "stopping") => ENABLED ComponentDone(x))
    /\ [][\A x \in DOMAIN life : life[x] # "running" => life'[x] # "running"]_vars

\* C8 witness: Shutdown returned the timeout while a processor it had told to stop
\* was still stopping
TimedOutWhileStopping ==
    /\ shutdownRet = "timeout" /\ pc = "deferred"
    /\ RssId \in DOMAIN life /\ life[RssId] = "done"
    /\ \E x \in Processors : life[x] = "stopping"

\* task t is inside a QueueFeedItem call that does not return
Blocked(t) == tasks[t].pc = "queue" /\ pvrs[tasks[t].cur] \in blocking

\* every goroutine that is not inside a blocking QueueFeedItem call can take its next
\* step, whatever the other goroutines do
TasksRunIndependently ==
    \A t \in DOMAIN tasks : pc # "exit" =>
      /\ tasks[t].pc = "decode" => ENABLED Decode(t)
      /\ tasks[t].pc = "range" => ENABLED RangePvrs(t)
      /\ (tasks[t].pc = "queue" /\ ~Blocked(t)) => ENABLED QueueFeedItem(t)

\* C6: pnHandler returns nil for every message without waiting for the goroutine it
\* started: its return is possible in whatever state that goroutine is, the next
\* message of a subscribed topic is accepted as soon as it has returned, also while
\* an earlier goroutine is stuck in QueueFeedItem, and every goroutine runs on its
\* own.
HandlerNeverBlocks ==
    /\ \A k \in DOMAIN returned : returned[k] = "nil"
    /\ Len(returned) + (IF inHandler = 0 THEN 0 ELSE 1) = Len(tasks)
    /\ (inHandler # 0 /\ pc # "exit") => ENABLED HandlerReturn
    /\ (inHandler = 0 /\ pc # "exit" /\ inbound # << >>
          /\ Head(inbound)[1] \in Subscribed) => ENABLED HandlerCall
    /\ TasksRunIndependently

\* C6 witness: a goroutine is stuck in QueueFeedItem, its handler call has returned,
\* and a later message has been accepted, routed and queued
LaterMessageRoutedWhileBlocked ==
    \E t \in DOMAIN tasks, u \in DOMAIN tasks, i \in Registered :
      /\ t < u /\ Blocked(t) /\ Len(returned) >= u
      /\ tasks[u].pc = "done" /\ Count(queued[i], u) = 1

\* the payload does not decode: it is not JSON, or a number stands for a string
Malformed(data) ==
    ~data.syntax \/ \E j \in {data.tvdb, data.imdb, data.tmdb} : j.t = "number"

\* C7: a malformed payload is queued with no pvr and pnHandler still returns nil for
\* it; a valid message, also one that follows a malformed one, is queued exactly with
\* the registered pvrs its own item matches, once each, and its goroutine is never
\* held up by another message.
MalformedIsDropped ==
    /\ \A k \in DOMAIN returned : returned[k] = "nil"
    /\ \A t \in DOMAIN tasks : Malformed(tasks[t].data) =>
         /\ tasks[t].pc \in {"decode", "dropped"}
         /\ \A i \in DOMAIN queued : Count(queued[i], t) = 0
    /\ \A t \in DOMAIN tasks : (~Malformed(tasks[t].data) /\ tasks[t].pc = "done") =>
         \A i \in DOMAIN queued :
           Count(queued[i], t) =
             IF /\ i \in Registered
                /\ \/ PvrType(i) = "sonarr" /\ TvRule(heap[t])
                   \/ PvrType(i) = "radarr" /\ MovieRule(heap[t])
             THEN 1 ELSE 0
    /\ TasksRunIndependently

\* C7 witness: a malformed message was dropped and a valid message that came after it
\* has been queued
ValidRoutedAfterMalformed ==
    \E t \in DOMAIN tasks, u \in DOMAIN tasks, i \in Registered :
      /\ t < u /\ tasks[t].pc = "dropped"
      /\ tasks[u].pc = "done" /\ Count(queued[i], u) = 1

\* the operations the node has made on its host, in order, after its subscriptions
BootstrapOps ==
    SelectSeq(calls, LAMBDA c : c.op \in {"NewMultiaddr", "ConnectWithMultiaddr",
                                          "JoinOverlay"})

\* main() has a node whose config names no bootstrap node
NoBootstrapNode == Len(node) = 1 /\ node[1].cfg.BootstrapNode = ""

\* C11: with an empty bootstrap_node, Bootstrap returns nil, so main() goes on to the
\* rss set-up, and neither then nor later is an address parsed, a connection tried or
\* the overlay joined.
BootstrapEmptyIsNoOp ==
    /\ [](NoBootstrapNode =>
            /\ BootstrapOps = << >>
            /\ exitMsg.msg # "Failed bootstrapping peernet")
    /\ [][(NoBootstrapNode /\ pc = "bootstrap" /\ pc' # pc) =>
            (pc' = "rss" /\ calls' = calls /\ exitMsg' = exitMsg)]_vars

\* C11 witness: Bootstrap has returned nil for an empty bootstrap_node
BootstrappedWithoutNode ==
    /\ NoBootstrapNode /\ pc = "rss"
    /\ Len(calls) = 2 /\ exitMsg.msg = ""

\* how often the host of the node has been closed
CloseCalls == Cardinality({i \in DOMAIN calls : calls[i].op = "Close"})

\* C12: in run mode, when the process has ended after the shutdown signal and the
\* call of Shutdown, the overlay node has been closed exactly once.
NodeClosedOnTermination ==
    (command = "run" /\ pc = "exit" /\ shutdownRet # "") => CloseCalls = 1

\* the messages main() logs for the errors of its run-mode start-up
StartupErrors ==
    {"Failed initialising peernet", "Failed subscribing to peernet topic",
     "Failed bootstrapping peernet", "Failed initialising rss"}

\* the node has joined the overlay
Joined == \E i \in DOMAIN calls : calls[i].op = "JoinOverlay"

\* C13: whenever main() has returned on a start-up error in run mode, the node has
\* not joined the overlay.
StartupErrorBeforeJoin ==
    (command = "run" /\ exitMsg.msg \in StartupErrors) => ~Joined

\* how often a handler has been registered for the topic
SubscribeCount(topic) ==
    Cardinality({i \in DOMAIN calls :
                   calls[i] = [op |-> "AddBroadcastPubSub", arg |-> topic]})

\* main() is at or past the call of pn.Bootstrap, without a start-up error before it
AtOrPastBootstrap ==
    /\ command = "run"
    /\ \/ pc \in {"bootstrap", "rss", "wait_shutdown", "shutdown", "in_shutdown"}
       \/ exitMsg.msg \in {"Failed bootstrapping peernet", "Failed initialising rss",
                           "Failed shutting down gracefully"}
       \/ shutdownRet # ""

\* C14: no topic is ever subscribed twice; when pn.Bootstrap is called, and from then
\* on, "sonarr" and "radarr" are each subscribed exactly once, and the two
\* subscriptions are the first things done on the host; after a failed subscription
\* main() returns and Bootstrap does nothing on the host.
SubscribedBeforeBootstrap ==
    /\ \A topic \in Topics : SubscribeCount(topic) <= 1
    /\ AtOrPastBootstrap =>
         /\ \A topic \in Topics : SubscribeCount(topic) = 1
         /\ Len(calls) >= 2 /\ {calls[1].arg, calls[2].arg} = Topics
    /\ pc = "bootstrap" => (Len(calls) = 2 /\ exitMsg.msg = "")
    /\ exitMsg.msg = "Failed subscribing to peernet topic" =>
         /\ pc \in {"deferred", "exit"} /\ ~AtOrPastBootstrap
         /\ BootstrapOps = << >>

\* C14 witness: the overlay was joined by Bootstrap, after both subscriptions
JoinedAfterBothSubscriptions ==
    /\ Joined /\ Len(calls) = 5
    /\ calls[1].arg = "sonarr" /\ calls[2].arg = "radarr"
    /\ calls[3].op = "NewMultiaddr"

\* pn.Bootstrap has returned
BootstrapReturned ==
    /\ command = "run" /\ Len(node) = 1
    /\ \/ pc \in {"rss", "wait_shutdown", "shutdown", "in_shutdown"}
       \/ exitMsg.msg \in {"Failed bootstrapping peernet", "Failed initialising rss",
                           "Failed shutting down gracefully"}
       \/ shutdownRet # ""

\* C15: with a non-empty bootstrap_node, what Bootstrap has done on the host when it
\* has returned is one of: the parse alone, with the parse error; the parse and then
\* the connect, with the connect error; the parse, the connect and then the join,
\* with no error. Before it is called nothing of the three has been done.
BootstrapParsesConnectsJoins ==
    (Len(node) = 1 /\ node[1].cfg.BootstrapNode # "") =>
      LET addr == node[1].cfg.BootstrapNode
          ops == [i \in DOMAIN BootstrapOps |-> BootstrapOps[i].op]
          failed == exitMsg.msg = "Failed bootstrapping peernet"
      IN  /\ ~BootstrapReturned => ops = << >>
          /\ BootstrapReturned =>
               \/ /\ ops = <<"NewMultiaddr">>
                  /\ failed /\ exitMsg.err = "parse bootstrap_node"
               \/ /\ ops = <<"NewMultiaddr", "ConnectWithMultiaddr">>
                  /\ failed /\ exitMsg.err = "connect bootstrap_node"
               \/ /\ ops = <<"NewMultiaddr", "ConnectWithMultiaddr", "JoinOverlay">>
                  /\ ~failed
          /\ \A i \in DOMAIN BootstrapOps :
               BootstrapOps[i].op # "JoinOverlay" => BootstrapOps[i].arg = addr

\* C15 witness: the connect to the bootstrap node failed and the overlay was not joined
ConnectFailedNoJoin ==
    /\ exitMsg.err = "connect bootstrap_node" /\ ~Joined
    /\ calls[Len(calls)].op = "ConnectWithMultiaddr"

\* C16: from the first Subscribe call on, and whenever a goroutine of pnHandler
\* exists, the map pvrs holds every entry of cfg.Pvrs and the loop that fills it is
\* over; the map is written only in that loop, before any subscription and before
\* any goroutine.
RegistryBuiltBeforeSubscribe ==
    /\ []((calls # << >> \/ tasks # << >> \/ pc \in {"subscribe_sonarr", "subscribe_radarr"}) =>
            /\ pvrs = Registry(cfg.Pvrs)
            /\ pvrIdx = Len(cfg.Pvrs) + 1)
    /\ [][pvrs' # pvrs => (pc = "pvrs" /\ calls = << >> /\ tasks = << >>)]_vars

\* C16 witness: a goroutine ranges over the map, which holds both pvrs of the config
GoroutineRangesFullRegistry ==
    \E t \in DOMAIN tasks :
      /\ tasks[t].pc = "range" /\ tasks[t].todo = DOMAIN pvrs
      /\ Cardinality(DOMAIN pvrs) = MaxPvrs

\* main() has called Shutdown and the process has not ended
ShuttingDown == appCtx # << >> /\ pc # "exit"

\* C17: after Shutdown was called, and until the process ends, every goroutine of
\* pnHandler can still take its next step (decode, range, QueueFeedItem on a pvr that
\* takes the item), whatever the state of the pvrs; the next inbound message is still
\* handed to pnHandler; no subscription is ever removed; and no step of main() or of
\* the shutdown changes a goroutine or what was queued by one.
NoCancellationOnShutdown ==
    /\ [](ShuttingDown =>
            /\ (inHandler = 0 /\ inbound # << >>) => ENABLED HandlerCall
            /\ \A t \in DOMAIN tasks :
                 /\ tasks[t].pc = "decode" => ENABLED Decode(t)
                 /\ tasks[t].pc = "range" => ENABLED RangePvrs(t)
                 /\ (tasks[t].pc = "queue" /\ ~Blocked(t)) => ENABLED QueueFeedItem(t))
    /\ [][Subscribed \subseteq Subscribed']_vars
    /\ [][(pc' # pc \/ life' # life \/ now' # now) => tasks' = tasks]_vars

\* C17 witness: a goroutine is about to call QueueFeedItem on a pvr that has been told
\* to stop, and can; a further message is waiting and will be handed to pnHandler
QueueAfterStopSignal ==
    /\ \E t \in DOMAIN tasks :
         /\ tasks[t].pc = "queue"
         /\ life[PvrId(pvrs[tasks[t].cur])] \in {"stopping", "done"}
         /\ ENABLED QueueFeedItem(t)
    /\ ShuttingDown /\ inbound # << >> /\ ENABLED HandlerCall

\* whether a message with this payload is to be queued with pvr i: decided by the
\* payload and the pvr alone
RoutedTo(data, i) ==
    LET r == Unmarshal(data)
    IN  /\ ~r.err /\ i \in Registered
        /\ \/ PvrType(i) = "sonarr" /\ TvRule(r.fi)
           \/ PvrType(i) = "radarr" /\ MovieRule(r.fi)

\* C18: the item a goroutine decodes is given by the payload alone, and when the
\* goroutine has finished, the pvrs it has queued the item with are given by the
\* payload and the registry alone: the same for a message received on "sonarr" and
\* one received on "radarr".
RoutingIgnoresTopic ==
    \A t \in DOMAIN tasks :
      /\ t \in DOMAIN heap => heap[t] = Unmarshal(tasks[t].data).fi
      /\ Finished(tasks[t]) =>
           \A i \in DOMAIN queued :
             Count(queued[i], t) = IF RoutedTo(tasks[t].data, i) THEN 1 ELSE 0

\* C18 witness: an item that matches the tv rule came in on the topic "radarr" and
\* was queued with a sonarr pvr
TvItemFromRadarrTopicQueued ==
    \E t \in DOMAIN tasks, i \in Registered :
      /\ tasks[t].topic = "radarr" /\ tasks[t].pc = "done"
      /\ PvrType(i) = "sonarr" /\ TvRule(heap[t]) /\ Count(queued[i], t) = 1

\* the messages main() logs on its returns ahead of the shutdown
EarlyReturns ==
    StartupErrors \cup {"Failed initialising pvr", "An invalid id was provided",
                        "Unsupported agent was provided"}

\* main() has come to the end of its run-mode or its test-mode branch
StartupCompleted ==
    \/ /\ command = "run" /\ Len(node) = 1
       /\ \A topic \in Topics : SubscribeCount(topic) = 1
       /\ feedIdx = cfg.Feeds + 1 /\ rssState = WithShutdown(RssId)
    \/ /\ command = "test" /\ TestPtr \in DOMAIN heap /\ testTodo = {}

\* C19: Shutdown is called at most once, and only when run mode has got its shutdown
\* signal or test mode has queued its item; when main() has returned early, Shutdown
\* was not called and every pvr processor that was started is still running, none of
\* them told to stop.
ShutdownOnlyAfterStartup ==
    /\ [](appCtx # << >> => (StartupCompleted /\ exitMsg.msg \notin EarlyReturns))
    /\ [](exitMsg.msg \in EarlyReturns =>
            /\ appCtx = << >> /\ shutdownRet = "" /\ appState = Empty
            /\ \A x \in DOMAIN life : life[x] = "running")
    /\ [][appCtx' # appCtx => (appCtx = << >> /\ pc = "shutdown")]_vars

\* C19 witness: the process has ended on a failed feed job, with two pvr processors
\* started and never told to stop
ExitedWithRunningProcessors ==
    /\ pc = "exit" /\ exitMsg.msg = "Failed initialising rss"
    /\ Cardinality({x \in DOMAIN life : x[1] = "pvr" /\ life[x] = "running"}) = MaxPvrs

====
